---- MODULE Spec2Model ----
(***************************************************************************)
(* Bounding volumes of geometric shapes (fcl, geometric_shapes_utility.cpp) *)
(*                                                                         *)
(* Every function of the file is a pure function of a shape and a rigid    *)
(* transform.  A behaviour of the model is one call sequence: Init draws   *)
(* the arguments (shape, tf), one action applies a function of the file to *)
(* them and records its result, and constructBox may then be applied to a  *)
(* bounding volume so computed.                                            *)
(*                                                                         *)
(* Numbers.  FCL_REAL is modelled in fixed point: a dimensionless real     *)
(* (an entry of a rotation matrix, a component of a normal) is an integer  *)
(* count of 1/ONE, a length is an integer count of length units, and a     *)
(* product with a dimensionless factor is rounded to the grid (MulFx).     *)
(* std::numeric_limits<FCL_REAL>::max() is FMax; sums that involve it      *)
(* absorb the finite term or overflow to Inf as doubles do (FAdd).         *)
(***************************************************************************)
EXTENDS Integers, Sequences, FiniteSets, TLC

VARIABLES shape, tf, op, bv, verts, new_s, fitted, tf_bv, box, tfOut

vars == <<shape, tf, op, bv, verts, new_s, fitted, tf_bv, box, tfOut>>

(***************************************************************************)
(* Bounds of the model                                                     *)
(***************************************************************************)
\* translations have components i, 2j, -(i+j) length units, i, j in 0..MaxT
MaxT == 1
\* offsets of half-spaces and planes are -MaxD..MaxD length units
MaxD == 1
\* sizes of shapes (half sides, radii, half lengths) are 1..MaxSize units
MaxSize == 2

(***************************************************************************)
(* FCL_REAL                                                                *)
(***************************************************************************)
\* the fixed-point denominator of dimensionless reals: 1.0 is ONE
ONE == 1000
\* one length unit; lengths of the inputs are multiples of it
UNIT == 2 * ONE
\* std::numeric_limits<FCL_REAL>::max()
FMax == ONE * ONE
\* the value of an overflowed sum (+infinity)
Inf == FMax + 1

Abs(x) == IF x < 0 THEN -x ELSE x
Sgn(x) == IF x < 0 THEN -1 ELSE IF x > 0 THEN 1 ELSE 0
\* a / b rounded to the nearest integer, symmetric about 0 (b > 0)
RoundDiv(a, b) == Sgn(a) * ((2 * Abs(a) + b) \div (2 * b))
\* the product of a dimensionless fixed-point factor a and a number x
MulFx(a, x) == RoundDiv(a * x, ONE)
\* 0.5 * x and x / 2
Half(x) == RoundDiv(x, 2)
\* a sum of doubles one of which may be +-max: the finite term is absorbed,
\* max + max overflows, max - max is 0
FAdd(a, b) ==
  IF Abs(a) >= FMax /\ Abs(b) < FMax THEN a
  ELSE IF Abs(b) >= FMax /\ Abs(a) < FMax THEN b
  ELSE IF a + b > FMax THEN Inf
  ELSE IF a + b < -FMax THEN -Inf
  ELSE a + b

(***************************************************************************)
(* Vector3d, Matrix3d, Transform3d                                         *)
(* A vector is <<x, y, z>>, a matrix the tuple of its rows, R[i][j] is     *)
(* R(i-1, j-1); a transform is [R |-> linear(), T |-> translation()].      *)
(***************************************************************************)
Axes == 1..3
Vec(x, y, z) == <<x, y, z>>
VAdd(u, v) == <<u[1] + v[1], u[2] + v[2], u[3] + v[3]>>
VSub(u, v) == <<u[1] - v[1], u[2] - v[2], u[3] - v[3]>>
VNeg(u) == <<-u[1], -u[2], -u[3]>>
VScale(k, u) == <<k * u[1], k * u[2], k * u[3]>>
VConstant(c) == <<c, c, c>>
VZero == VConstant(0)
\* u.dot(v) where u is dimensionless
Dot(u, v) == MulFx(u[1], v[1]) + MulFx(u[2], v[2]) + MulFx(u[3], v[3])
\* M * v where M is dimensionless
MatVec(M, v) == <<Dot(M[1], v), Dot(M[2], v), Dot(M[3], v)>>
Col(M, j) == <<M[1][j], M[2][j], M[3][j]>>
\* A * B, both dimensionless
MatRow(A, B, i) == <<Dot(A[i], Col(B, 1)), Dot(A[i], Col(B, 2)), Dot(A[i], Col(B, 3))>>
MatMul(A, B) == <<MatRow(A, B, 1), MatRow(A, B, 2), MatRow(A, B, 3)>>
Identity == <<Vec(ONE, 0, 0), Vec(0, ONE, 0), Vec(0, 0, ONE)>>
\* tf * p
Apply(t, p) == VAdd(MatVec(t.R, p), t.T)
\* tf1 * tf2
Compose(t1, t2) == [R |-> MatMul(t1.R, t2.R), T |-> Apply(t1, t2.T)]
\* Eigen::Translation3d(c) as a transform
Translation3d(c) == [R |-> Identity, T |-> c]
IdentityTf == [R |-> Identity, T |-> VZero]

\* the rotations the fixed-point grid represents exactly: the 24 rotations
\* of the cube (signed permutation matrices of determinant +1)
Det(M) ==
    M[1][1] * (M[2][2] * M[3][3] - M[2][3] * M[3][2])
  - M[1][2] * (M[2][1] * M[3][3] - M[2][3] * M[3][1])
  + M[1][3] * (M[2][1] * M[3][2] - M[2][2] * M[3][1])
Perms == {p \in [Axes -> Axes] : \A i, j \in Axes : p[i] = p[j] => i = j}
SignedRow(p, s, i) ==
  <<IF p[i] = 1 THEN s[i] * ONE ELSE 0, IF p[i] = 2 THEN s[i] * ONE ELSE 0,
    IF p[i] = 3 THEN s[i] * ONE ELSE 0>>
SignedPerm(p, s) == <<SignedRow(p, s, 1), SignedRow(p, s, 2), SignedRow(p, s, 3)>>
Rotations ==
  {M \in {SignedPerm(p, s) : p \in Perms, s \in [Axes -> {-1, 1}]} :
     Det(M) = ONE * ONE * ONE}
Translations ==
  {Vec(i * UNIT, 2 * j * UNIT, -(i + j) * UNIT) : i, j \in 0..MaxT}
Transforms == {[R |-> r, T |-> t] : r \in Rotations, t \in Translations}
\* the rotations by 90 degrees about the x, y and z axes
RotX90 == <<Vec(ONE, 0, 0), Vec(0, 0, -ONE), Vec(0, ONE, 0)>>
RotY90 == <<Vec(0, 0, ONE), Vec(0, ONE, 0), Vec(-ONE, 0, 0)>>
RotZ90 == <<Vec(0, -ONE, 0), Vec(ONE, 0, 0), Vec(0, 0, ONE)>>

(***************************************************************************)
(* The shape catalogue.  One record type carries every kind; a field a     *)
(* kind does not have is 0.  TriangleP's a, b, c are points[1..3].         *)
(***************************************************************************)
Shape(k, side, radii, radius, lz, points, n, d) ==
  [kind |-> k, side |-> side, radii |-> radii, radius |-> radius, lz |-> lz,
   points |-> points, n |-> n, d |-> d]
Sizes == {k * UNIT : k \in 1..MaxSize}
\* Box(x, y, z): side holds the full side lengths
Box(side) == Shape("Box", side, VZero, 0, 0, <<>>, VZero, 0)
Sphere(r) == Shape("Sphere", VZero, VZero, r, 0, <<>>, VZero, 0)
Ellipsoid(radii) == Shape("Ellipsoid", VZero, radii, 0, 0, <<>>, VZero, 0)
Capsule(r, lz) == Shape("Capsule", VZero, VZero, r, lz, <<>>, VZero, 0)
Cone(r, lz) == Shape("Cone", VZero, VZero, r, lz, <<>>, VZero, 0)
Cylinder(r, lz) == Shape("Cylinder", VZero, VZero, r, lz, <<>>, VZero, 0)
Convex(points) == Shape("Convex", VZero, VZero, 0, 0, points, VZero, 0)
TriangleP(a, b, c) == Shape("TriangleP", VZero, VZero, 0, 0, <<a, b, c>>, VZero, 0)
Halfspace(n, d) == Shape("Halfspace", VZero, VZero, 0, 0, <<>>, n, d)
Plane(n, d) == Shape("Plane", VZero, VZero, 0, 0, <<>>, n, d)

\* 1/sqrt(2) and 1/sqrt(3) on the grid
InvSqrt2 == RoundDiv(ONE * 7071, 10000)
InvSqrt3 == RoundDiv(ONE * 5774, 10000)
Signs == {-1, 1}
\* unit normals along the coordinate axes
AxisNormals == {Vec(s * ONE, 0, 0) : s \in Signs} \cup {Vec(0, s * ONE, 0) : s \in Signs}
                 \cup {Vec(0, 0, s * ONE) : s \in Signs}
\* unit normals with two components of equal magnitude and a zero third (the
\* rotations carry them onto all twelve such directions)
Diag2Normals ==
  {Vec(InvSqrt2, InvSqrt2, 0), Vec(InvSqrt2, 0, -InvSqrt2), Vec(0, -InvSqrt2, -InvSqrt2),
   Vec(-InvSqrt2, InvSqrt2, 0)}
\* unit normals with three components of equal magnitude (the rotations carry
\* them onto all eight such directions)
Diag3Normals ==
  {Vec(InvSqrt3, InvSqrt3, InvSqrt3), Vec(InvSqrt3, InvSqrt3, -InvSqrt3)}
\* unit normals aligned with none of these directions: (3, 4, 0)/5, (2, -1, 2)/3
OtherNormals ==
  {Vec(RoundDiv(3 * ONE, 5), RoundDiv(4 * ONE, 5), 0),
   Vec(RoundDiv(2 * ONE, 3), -RoundDiv(ONE, 3), RoundDiv(2 * ONE, 3))}
Normals == AxisNormals \cup Diag2Normals \cup Diag3Normals \cup OtherNormals
Offsets == {k * UNIT : k \in -MaxD..MaxD}
Halfspaces == {Halfspace(n, d) : n \in Normals, d \in Offsets}
Planes == {Plane(n, d) : n \in Normals, d \in Offsets}

(***************************************************************************)
(* The bounding volumes                                                    *)
(***************************************************************************)
NoBV == [kind |-> "none"]
AABB(min_, max_) == [kind |-> "AABB", min_ |-> min_, max_ |-> max_]
OBB(axis, To, extent) == [kind |-> "OBB", axis |-> axis, To |-> To, extent |-> extent]
RSS(axis, Tr, l, r) == [kind |-> "RSS", axis |-> axis, Tr |-> Tr, l |-> l, r |-> r]
OBBRSS(obb, rss) == [kind |-> "OBBRSS", obb |-> obb, rss |-> rss]
kIOS(num_spheres, obb, spheres) ==
  [kind |-> "kIOS", num_spheres |-> num_spheres, obb |-> obb, spheres |-> spheres]
\* KDOP<N>: dist(i) is dist[i], i in 0..N-1
KDOP(N, dist) == [kind |-> "KDOP", N |-> N, dist |-> dist]

(***************************************************************************)
(* transform(Halfspace, tf), transform(Plane, tf)                          *)
(***************************************************************************)
\* transform with the sign of the translation term slipped
transform_Halfspace_minus(a, t) ==
  LET n == MatVec(t.R, a.n)
      d == a.d - Dot(n, t.T)
  IN  Halfspace(n, d)

transform_Halfspace(a, t) ==
  LET n == MatVec(t.R, a.n)
      d == a.d + Dot(n, t.T)
  IN  Halfspace(n, d)

transform_Plane(a, t) ==
  LET n == MatVec(t.R, a.n)
      d == a.d + Dot(n, t.T)
  IN  Plane(n, d)

(***************************************************************************)
(* computeBV<AABB, Halfspace>, computeBV<AABB, Plane>                      *)
(***************************************************************************)
\* computeBV<AABB, Halfspace> that tightens max_ whatever the normal's sign
computeBV_AABB_Halfspace_nosign(s, t) ==
  LET new == transform_Halfspace(s, t)
      n == new.n
      d == new.d
      min0 == VConstant(-FMax)
      max0 == VConstant(FMax)
  IN  IF n[2] = 0 /\ n[3] = 0 THEN AABB(min0, [max0 EXCEPT ![1] = d])
      ELSE IF n[1] = 0 /\ n[3] = 0 THEN AABB(min0, [max0 EXCEPT ![2] = d])
      ELSE IF n[1] = 0 /\ n[2] = 0 THEN AABB(min0, [max0 EXCEPT ![3] = d])
      ELSE AABB(min0, max0)

computeBV_AABB_Halfspace(s, t) ==
  LET new == transform_Halfspace(s, t)
      n == new.n
      d == new.d
      min0 == VConstant(-FMax)
      max0 == VConstant(FMax)
  IN  IF n[2] = 0 /\ n[3] = 0
      THEN IF n[1] < 0 THEN AABB([min0 EXCEPT ![1] = -d], max0)
           ELSE IF n[1] > 0 THEN AABB(min0, [max0 EXCEPT ![1] = d])
           ELSE AABB(min0, max0)
      ELSE IF n[1] = 0 /\ n[3] = 0
      THEN IF n[2] < 0 THEN AABB([min0 EXCEPT ![2] = -d], max0)
           ELSE IF n[2] > 0 THEN AABB(min0, [max0 EXCEPT ![2] = d])
           ELSE AABB(min0, max0)
      ELSE IF n[1] = 0 /\ n[2] = 0
      THEN IF n[3] < 0 THEN AABB([min0 EXCEPT ![3] = -d], max0)
           ELSE IF n[3] > 0 THEN AABB(min0, [max0 EXCEPT ![3] = d])
           ELSE AABB(min0, max0)
      ELSE AABB(min0, max0)

computeBV_AABB_Plane(s, t) ==
  LET new == transform_Plane(s, t)
      n == new.n
      d == new.d
      min0 == VConstant(-FMax)
      max0 == VConstant(FMax)
  IN  IF n[2] = 0 /\ n[3] = 0
      THEN IF n[1] < 0 THEN AABB([min0 EXCEPT ![1] = -d], [max0 EXCEPT ![1] = -d])
           ELSE IF n[1] > 0 THEN AABB([min0 EXCEPT ![1] = d], [max0 EXCEPT ![1] = d])
           ELSE AABB(min0, max0)
      ELSE IF n[1] = 0 /\ n[3] = 0
      THEN IF n[2] < 0 THEN AABB([min0 EXCEPT ![2] = -d], [max0 EXCEPT ![2] = -d])
           ELSE IF n[2] > 0 THEN AABB([min0 EXCEPT ![2] = d], [max0 EXCEPT ![2] = d])
           ELSE AABB(min0, max0)
      ELSE IF n[1] = 0 /\ n[2] = 0
      THEN IF n[3] < 0 THEN AABB([min0 EXCEPT ![3] = -d], [max0 EXCEPT ![3] = -d])
           ELSE IF n[3] > 0 THEN AABB([min0 EXCEPT ![3] = d], [max0 EXCEPT ![3] = d])
           ELSE AABB(min0, max0)
      ELSE AABB(min0, max0)

(***************************************************************************)
(* generateCoordinateSystem(axis) (fcl/math/geometry.h): completes column  *)
(* 0 of axis to a frame; column 0 is left as it is.                        *)
(***************************************************************************)
RECURSIVE SqrtSearch(_, _, _)
\* the largest r in lo..hi with r * r <= x
SqrtSearch(x, lo, hi) ==
  IF lo >= hi THEN lo
  ELSE LET mid == (lo + hi + 1) \div 2
       IN  IF mid * mid <= x THEN SqrtSearch(x, mid, hi) ELSE SqrtSearch(x, lo, mid - 1)
\* sqrt of a sum of squares of fixed-point numbers, on the grid
Sqrt2(a, b) == SqrtSearch(a * a + b * b, 0, Abs(a) + Abs(b))
Cross(u, v) ==
  <<MulFx(u[2], v[3]) - MulFx(u[3], v[2]), MulFx(u[3], v[1]) - MulFx(u[1], v[3]),
    MulFx(u[1], v[2]) - MulFx(u[2], v[1])>>
FromCols(c0, c1, c2) ==
  <<Vec(c0[1], c1[1], c2[1]), Vec(c0[2], c1[2], c2[2]), Vec(c0[3], c1[3], c2[3])>>
generateCoordinateSystem(n) ==
  LET c1 == IF Abs(n[1]) >= Abs(n[2])
            THEN LET len == Sqrt2(n[1], n[3])
                 IN  IF len = 0 THEN Vec(0, 0, 0)
                     ELSE Vec(RoundDiv(-n[3] * ONE, len), 0, RoundDiv(n[1] * ONE, len))
            ELSE LET len == Sqrt2(n[2], n[3])
                 IN  Vec(0, RoundDiv(n[3] * ONE, len), RoundDiv(-n[2] * ONE, len))
  IN  FromCols(n, c1, Cross(n, c1))

(***************************************************************************)
(* computeBV<OBB / RSS / OBBRSS / kIOS, Halfspace / Plane>                 *)
(***************************************************************************)
computeBV_OBB_Halfspace(s, t) == OBB(Identity, VZero, VConstant(FMax))

computeBV_RSS_Halfspace(s, t) == RSS(Identity, VZero, <<FMax, FMax>>, FMax)

computeBV_OBBRSS_Halfspace(s, t) ==
  OBBRSS(computeBV_OBB_Halfspace(s, t), computeBV_RSS_Halfspace(s, t))

computeBV_kIOS_Halfspace(s, t) ==
  kIOS(1, computeBV_OBB_Halfspace(s, t), <<[o |-> VZero, r |-> FMax]>>)

\* computeBV<OBB, Plane> that forgets to rotate the normal
computeBV_OBB_Plane_unrotated(s, t) ==
  LET p == Vec(MulFx(s.n[1], s.d), MulFx(s.n[2], s.d), MulFx(s.n[3], s.d))
  IN  OBB(generateCoordinateSystem(s.n), Apply(t, p), Vec(0, FMax, FMax))

computeBV_OBB_Plane(s, t) ==
  LET n == MatVec(t.R, s.n)
      p == Vec(MulFx(s.n[1], s.d), MulFx(s.n[2], s.d), MulFx(s.n[3], s.d))
  IN  OBB(generateCoordinateSystem(n), Apply(t, p), Vec(0, FMax, FMax))

\* computeBV<RSS, Plane> that rotates the point n * d and does not translate it
computeBV_RSS_Plane_untranslated(s, t) ==
  LET n == MatVec(t.R, s.n)
      p == Vec(MulFx(s.n[1], s.d), MulFx(s.n[2], s.d), MulFx(s.n[3], s.d))
  IN  RSS(generateCoordinateSystem(n), MatVec(t.R, p), <<FMax, FMax>>, 0)

computeBV_RSS_Plane(s, t) ==
  LET n == MatVec(t.R, s.n)
      p == Vec(MulFx(s.n[1], s.d), MulFx(s.n[2], s.d), MulFx(s.n[3], s.d))
  IN  RSS(generateCoordinateSystem(n), Apply(t, p), <<FMax, FMax>>, 0)

computeBV_OBBRSS_Plane(s, t) ==
  OBBRSS(computeBV_OBB_Plane(s, t), computeBV_RSS_Plane(s, t))

computeBV_kIOS_Plane(s, t) ==
  kIOS(1, computeBV_OBB_Plane(s, t), <<[o |-> VZero, r |-> FMax]>>)

(***************************************************************************)
(* computeBV<KDOP<16 / 18 / 24>, Halfspace>                                *)
(***************************************************************************)
\* the initialisation with the two halves exchanged
KDOPInit_swapped(D) == [i \in 0..(2 * D - 1) |-> IF i < D THEN FMax ELSE -FMax]
\* the loops that initialise dist: -max for 0..D-1, +max for D..2D-1
KDOPInit(D) == [i \in 0..(2 * D - 1) |-> IF i < D THEN -FMax ELSE FMax]
\* bv.dist(i) = v
SetDist(dist, i, v) == [dist EXCEPT ![i] = v]

computeBV_KDOP16_Halfspace(s, t) ==
  LET new == transform_Halfspace(s, t)
      n == new.n
      d == new.d
      D == 8
      dist == KDOPInit(D)
  IN  KDOP(16,
      IF n[2] = 0 /\ n[3] = 0
      THEN IF n[1] > 0 THEN SetDist(dist, D, d) ELSE SetDist(dist, 0, -d)
      ELSE IF n[1] = 0 /\ n[3] = 0
      THEN IF n[2] > 0 THEN SetDist(dist, D + 1, d) ELSE SetDist(dist, 1, -d)
      ELSE IF n[1] = 0 /\ n[2] = 0
      THEN IF n[3] > 0 THEN SetDist(dist, D + 2, d) ELSE SetDist(dist, 2, -d)
      ELSE IF n[3] = 0 /\ n[1] = n[2]
      THEN IF n[1] > 0 THEN SetDist(dist, D + 3, MulFx(n[1], d) * 2)
           ELSE SetDist(dist, 3, MulFx(n[1], d) * 2)
      ELSE IF n[2] = 0 /\ n[1] = n[3]
      THEN IF n[2] > 0 THEN SetDist(dist, D + 4, MulFx(n[1], d) * 2)
           ELSE SetDist(dist, 4, MulFx(n[1], d) * 2)
      ELSE IF n[1] = 0 /\ n[2] = n[3]
      THEN IF n[2] > 0 THEN SetDist(dist, D + 5, MulFx(n[2], d) * 2)
           ELSE SetDist(dist, 5, MulFx(n[2], d) * 2)
      ELSE IF n[3] = 0 /\ n[1] + n[2] = 0
      THEN IF n[1] > 0 THEN SetDist(dist, D + 6, MulFx(n[1], d) * 2)
           ELSE SetDist(dist, 6, MulFx(n[1], d) * 2)
      ELSE IF n[2] = 0 /\ n[1] + n[3] = 0
      THEN IF n[1] > 0 THEN SetDist(dist, D + 7, MulFx(n[1], d) * 2)
           ELSE SetDist(dist, 7, MulFx(n[1], d) * 2)
      ELSE dist)

computeBV_KDOP18_Halfspace(s, t) ==
  LET new == transform_Halfspace(s, t)
      n == new.n
      d == new.d
      D == 9
      dist == KDOPInit(D)
  IN  KDOP(18,
      IF n[2] = 0 /\ n[3] = 0
      THEN IF n[1] > 0 THEN SetDist(dist, D, d) ELSE SetDist(dist, 0, -d)
      ELSE IF n[1] = 0 /\ n[3] = 0
      THEN IF n[2] > 0 THEN SetDist(dist, D + 1, d) ELSE SetDist(dist, 1, -d)
      ELSE IF n[1] = 0 /\ n[2] = 0
      THEN IF n[3] > 0 THEN SetDist(dist, D + 2, d) ELSE SetDist(dist, 2, -d)
      ELSE IF n[3] = 0 /\ n[1] = n[2]
      THEN IF n[1] > 0 THEN SetDist(dist, D + 3, MulFx(n[1], d) * 2)
           ELSE SetDist(dist, 3, MulFx(n[1], d) * 2)
      ELSE IF n[2] = 0 /\ n[1] = n[3]
      THEN IF n[2] > 0 THEN SetDist(dist, D + 4, MulFx(n[1], d) * 2)
           ELSE SetDist(dist, 4, MulFx(n[1], d) * 2)
      ELSE IF n[1] = 0 /\ n[2] = n[3]
      THEN IF n[2] > 0 THEN SetDist(dist, D + 5, MulFx(n[2], d) * 2)
           ELSE SetDist(dist, 5, MulFx(n[2], d) * 2)
      ELSE IF n[3] = 0 /\ n[1] + n[2] = 0
      THEN IF n[1] > 0 THEN SetDist(dist, D + 6, MulFx(n[1], d) * 2)
           ELSE SetDist(dist, 6, MulFx(n[1], d) * 2)
      ELSE IF n[2] = 0 /\ n[1] + n[3] = 0
      THEN IF n[1] > 0 THEN SetDist(dist, D + 7, MulFx(n[1], d) * 2)
           ELSE SetDist(dist, 7, MulFx(n[1], d) * 2)
      ELSE IF n[1] = 0 /\ n[2] + n[3] = 0
      THEN IF n[2] > 0 THEN SetDist(dist, D + 8, MulFx(n[2], d) * 2)
           ELSE SetDist(dist, 8, MulFx(n[2], d) * 2)
      ELSE dist)

computeBV_KDOP24_Halfspace(s, t) ==
  LET new == transform_Halfspace(s, t)
      n == new.n
      d == new.d
      D == 12
      dist == KDOPInit(D)
  IN  KDOP(24,
      IF n[2] = 0 /\ n[3] = 0
      THEN IF n[1] > 0 THEN SetDist(dist, D, d) ELSE SetDist(dist, 0, -d)
      ELSE IF n[1] = 0 /\ n[3] = 0
      THEN IF n[2] > 0 THEN SetDist(dist, D + 1, d) ELSE SetDist(dist, 1, -d)
      ELSE IF n[1] = 0 /\ n[2] = 0
      THEN IF n[3] > 0 THEN SetDist(dist, D + 2, d) ELSE SetDist(dist, 2, -d)
      ELSE IF n[3] = 0 /\ n[1] = n[2]
      THEN IF n[1] > 0 THEN SetDist(dist, D + 3, MulFx(n[1], d) * 2)
           ELSE SetDist(dist, 3, MulFx(n[1], d) * 2)
      ELSE IF n[2] = 0 /\ n[1] = n[3]
      THEN IF n[2] > 0 THEN SetDist(dist, D + 4, MulFx(n[1], d) * 2)
           ELSE SetDist(dist, 4, MulFx(n[1], d) * 2)
      ELSE IF n[1] = 0 /\ n[2] = n[3]
      THEN IF n[2] > 0 THEN SetDist(dist, D + 5, MulFx(n[2], d) * 2)
           ELSE SetDist(dist, 5, MulFx(n[2], d) * 2)
      ELSE IF n[3] = 0 /\ n[1] + n[2] = 0
      THEN IF n[1] > 0 THEN SetDist(dist, D + 6, MulFx(n[1], d) * 2)
           ELSE SetDist(dist, 6, MulFx(n[1], d) * 2)
      ELSE IF n[2] = 0 /\ n[1] + n[3] = 0
      THEN IF n[1] > 0 THEN SetDist(dist, D + 7, MulFx(n[1], d) * 2)
           ELSE SetDist(dist, 7, MulFx(n[1], d) * 2)
      ELSE IF n[1] = 0 /\ n[2] + n[3] = 0
      THEN IF n[2] > 0 THEN SetDist(dist, D + 8, MulFx(n[2], d) * 2)
           ELSE SetDist(dist, 8, MulFx(n[2], d) * 2)
      ELSE IF n[1] + n[3] = 0 /\ n[1] + n[2] = 0
      THEN IF n[1] > 0 THEN SetDist(dist, D + 9, MulFx(n[1], d) * 3)
           ELSE SetDist(dist, 9, MulFx(n[1], d) * 3)
      ELSE IF n[1] + n[2] = 0 /\ n[2] + n[3] = 0
      THEN IF n[1] > 0 THEN SetDist(dist, D + 10, MulFx(n[1], d) * 3)
           ELSE SetDist(dist, 10, MulFx(n[1], d) * 3)
      ELSE IF n[1] + n[2] = 0 /\ n[1] + n[3] = 0
      THEN IF n[2] > 0 THEN SetDist(dist, D + 11, MulFx(n[2], d) * 3)
           ELSE SetDist(dist, 11, MulFx(n[2], d) * 3)
      ELSE dist)

(***************************************************************************)
(* computeBV<KDOP<16 / 18 / 24>, Plane>: bv.dist(i) = bv.dist(D + i) = v   *)
(* assigns slot D + i and then slot i                                      *)
(***************************************************************************)
computeBV_KDOP16_Plane(s, t) ==
  LET new == transform_Plane(s, t)
      n == new.n
      d == new.d
      D == 8
      dist == KDOPInit(D)
  IN  KDOP(16,
      IF n[2] = 0 /\ n[3] = 0
      THEN IF n[1] > 0 THEN SetDist(SetDist(dist, D, d), 0, d)
           ELSE SetDist(SetDist(dist, D, -d), 0, -d)
      ELSE IF n[1] = 0 /\ n[3] = 0
      THEN IF n[2] > 0 THEN SetDist(SetDist(dist, D + 1, d), 1, d)
           ELSE SetDist(SetDist(dist, D + 1, -d), 1, -d)
      ELSE IF n[1] = 0 /\ n[2] = 0
      THEN IF n[3] > 0 THEN SetDist(SetDist(dist, D + 2, d), 2, d)
           ELSE SetDist(SetDist(dist, D + 2, -d), 2, -d)
      ELSE IF n[3] = 0 /\ n[1] = n[2]
      THEN SetDist(SetDist(dist, D + 3, MulFx(n[1], d) * 2), 3, MulFx(n[1], d) * 2)
      ELSE IF n[2] = 0 /\ n[1] = n[3]
      THEN SetDist(SetDist(dist, D + 4, MulFx(n[1], d) * 2), 4, MulFx(n[1], d) * 2)
      ELSE IF n[1] = 0 /\ n[2] = n[3]
      THEN SetDist(SetDist(dist, D + 5, MulFx(n[2], d) * 2), 6, MulFx(n[2], d) * 2)
      ELSE IF n[3] = 0 /\ n[1] + n[2] = 0
      THEN SetDist(SetDist(dist, D + 6, MulFx(n[1], d) * 2), 6, MulFx(n[1], d) * 2)
      ELSE IF n[2] = 0 /\ n[1] + n[3] = 0
      THEN SetDist(SetDist(dist, D + 7, MulFx(n[1], d) * 2), 7, MulFx(n[1], d) * 2)
      ELSE dist)

computeBV_KDOP18_Plane(s, t) ==
  LET new == transform_Plane(s, t)
      n == new.n
      d == new.d
      D == 9
      dist == KDOPInit(D)
  IN  KDOP(18,
      IF n[2] = 0 /\ n[3] = 0
      THEN IF n[1] > 0 THEN SetDist(SetDist(dist, D, d), 0, d)
           ELSE SetDist(SetDist(dist, D, -d), 0, -d)
      ELSE IF n[1] = 0 /\ n[3] = 0
      THEN IF n[2] > 0 THEN SetDist(SetDist(dist, D + 1, d), 1, d)
           ELSE SetDist(SetDist(dist, D + 1, -d), 1, -d)
      ELSE IF n[1] = 0 /\ n[2] = 0
      THEN IF n[3] > 0 THEN SetDist(SetDist(dist, D + 2, d), 2, d)
           ELSE SetDist(SetDist(dist, D + 2, -d), 2, -d)
      ELSE IF n[3] = 0 /\ n[1] = n[2]
      THEN SetDist(SetDist(dist, D + 3, MulFx(n[1], d) * 2), 3, MulFx(n[1], d) * 2)
      ELSE IF n[2] = 0 /\ n[1] = n[3]
      THEN SetDist(SetDist(dist, D + 4, MulFx(n[1], d) * 2), 4, MulFx(n[1], d) * 2)
      ELSE IF n[1] = 0 /\ n[2] = n[3]
      THEN SetDist(SetDist(dist, D + 5, MulFx(n[2], d) * 2), 5, MulFx(n[2], d) * 2)
      ELSE IF n[3] = 0 /\ n[1] + n[2] = 0
      THEN SetDist(SetDist(dist, D + 6, MulFx(n[1], d) * 2), 6, MulFx(n[1], d) * 2)
      ELSE IF n[2] = 0 /\ n[1] + n[3] = 0
      THEN SetDist(SetDist(dist, D + 7, MulFx(n[1], d) * 2), 7, MulFx(n[1], d) * 2)
      ELSE IF n[1] = 0 /\ n[2] + n[3] = 0
      THEN SetDist(SetDist(dist, D + 8, MulFx(n[2], d) * 2), 8, MulFx(n[2], d) * 2)
      ELSE dist)

computeBV_KDOP24_Plane(s, t) ==
  LET new == transform_Plane(s, t)
      n == new.n
      d == new.d
      D == 12
      dist == KDOPInit(D)
  IN  KDOP(24,
      IF n[2] = 0 /\ n[3] = 0
      THEN IF n[1] > 0 THEN SetDist(SetDist(dist, D, d), 0, d)
           ELSE SetDist(SetDist(dist, D, -d), 0, -d)
      ELSE IF n[1] = 0 /\ n[3] = 0
      THEN IF n[2] > 0 THEN SetDist(SetDist(dist, D + 1, d), 1, d)
           ELSE SetDist(SetDist(dist, D + 1, -d), 1, -d)
      ELSE IF n[1] = 0 /\ n[2] = 0
      THEN IF n[3] > 0 THEN SetDist(SetDist(dist, D + 2, d), 2, d)
           ELSE SetDist(SetDist(dist, D + 2, -d), 2, -d)
      ELSE IF n[3] = 0 /\ n[1] = n[2]
      THEN SetDist(SetDist(dist, D + 3, MulFx(n[1], d) * 2), 3, MulFx(n[1], d) * 2)
      ELSE IF n[2] = 0 /\ n[1] = n[3]
      THEN SetDist(SetDist(dist, D + 4, MulFx(n[1], d) * 2), 4, MulFx(n[1], d) * 2)
      ELSE IF n[1] = 0 /\ n[2] = n[3]
      THEN SetDist(SetDist(dist, D + 5, MulFx(n[2], d) * 2), 5, MulFx(n[2], d) * 2)
      ELSE IF n[3] = 0 /\ n[1] + n[2] = 0
      THEN SetDist(SetDist(dist, D + 6, MulFx(n[1], d) * 2), 6, MulFx(n[1], d) * 2)
      ELSE IF n[2] = 0 /\ n[1] + n[3] = 0
      THEN SetDist(SetDist(dist, D + 7, MulFx(n[1], d) * 2), 7, MulFx(n[1], d) * 2)
      ELSE IF n[1] = 0 /\ n[2] + n[3] = 0
      THEN SetDist(SetDist(dist, D + 8, MulFx(n[2], d) * 2), 8, MulFx(n[2], d) * 2)
      ELSE IF n[1] + n[3] = 0 /\ n[1] + n[2] = 0
      THEN SetDist(SetDist(dist, D + 9, MulFx(n[1], d) * 3), 9, MulFx(n[1], d) * 3)
      ELSE IF n[1] + n[2] = 0 /\ n[2] + n[3] = 0
      THEN SetDist(SetDist(dist, D + 10, MulFx(n[1], d) * 3), 10, MulFx(n[1], d) * 3)
      ELSE IF n[1] + n[2] = 0 /\ n[1] + n[3] = 0
      THEN SetDist(SetDist(dist, D + 11, MulFx(n[2], d) * 3), 11, MulFx(n[2], d) * 3)
      ELSE dist)

(***************************************************************************)
(* details::getBoundVertices                                               *)
(***************************************************************************)
\* sqrt(k) on the grid, k a small integer
SqrtFx(k) == SqrtSearch(k * ONE * ONE, 0, k * ONE)
Sqrt3 == SqrtFx(3)
Sqrt5 == SqrtFx(5)
Sqrt15 == SqrtFx(15)
Sqrt27 == SqrtFx(27)
\* (1 + sqrt(5.0)) / 2.0
GoldenRatio == RoundDiv(ONE + Sqrt5, 2)
\* tf * Vector3d(x, y, z)
TfPoint(t, x, y, z) == Apply(t, Vec(x, y, z))

\* getBoundVertices(Box) that takes the full sides for the half sides
getBoundVertices_Box_fullside(b, t) ==
  LET a == b.side[1]
      bb == b.side[2]
      c == b.side[3]
  IN  <<TfPoint(t, a, bb, c), TfPoint(t, a, bb, -c), TfPoint(t, a, -bb, c),
        TfPoint(t, a, -bb, -c), TfPoint(t, -a, bb, c), TfPoint(t, -a, bb, -c),
        TfPoint(t, -a, -bb, c), TfPoint(t, -a, -bb, -c)>>

getBoundVertices_Box(b, t) ==
  LET a == Half(b.side[1])
      bb == Half(b.side[2])
      c == Half(b.side[3])
  IN  <<TfPoint(t, a, bb, c), TfPoint(t, a, bb, -c), TfPoint(t, a, -bb, c),
        TfPoint(t, a, -bb, -c), TfPoint(t, -a, bb, c), TfPoint(t, -a, bb, -c),
        TfPoint(t, -a, -bb, c), TfPoint(t, -a, -bb, -c)>>

getBoundVertices_Sphere(sphere, t) ==
  LET m == GoldenRatio
      edge_size == RoundDiv(sphere.radius * 6 * ONE, Sqrt27 + Sqrt15)
      a == edge_size
      b == MulFx(m, edge_size)
  IN  <<TfPoint(t, 0, a, b), TfPoint(t, 0, -a, b), TfPoint(t, 0, a, -b),
        TfPoint(t, 0, -a, -b), TfPoint(t, a, b, 0), TfPoint(t, -a, b, 0),
        TfPoint(t, a, -b, 0), TfPoint(t, -a, -b, 0), TfPoint(t, b, 0, a),
        TfPoint(t, b, 0, -a), TfPoint(t, -b, 0, a), TfPoint(t, -b, 0, -a)>>

getBoundVertices_Ellipsoid(ellipsoid, t) ==
  LET phi == GoldenRatio
      a == RoundDiv(Sqrt3 * ONE, MulFx(phi, phi))
      b == MulFx(phi, a)
      A == ellipsoid.radii[1]
      B == ellipsoid.radii[2]
      C == ellipsoid.radii[3]
      Aa == MulFx(a, A)
      Ab == MulFx(b, A)
      Ba == MulFx(a, B)
      Bb == MulFx(b, B)
      Ca == MulFx(a, C)
      Cb == MulFx(b, C)
  IN  <<TfPoint(t, 0, Ba, Cb), TfPoint(t, 0, -Ba, Cb), TfPoint(t, 0, Ba, -Cb),
        TfPoint(t, 0, -Ba, -Cb), TfPoint(t, Aa, Bb, 0), TfPoint(t, -Aa, Bb, 0),
        TfPoint(t, Aa, -Bb, 0), TfPoint(t, -Aa, -Bb, 0), TfPoint(t, Ab, 0, Ca),
        TfPoint(t, Ab, 0, -Ca), TfPoint(t, -Ab, 0, Ca), TfPoint(t, -Ab, 0, -Ca)>>

getBoundVertices_Capsule(capsule, t) ==
  LET m == GoldenRatio
      hl == Half(capsule.lz)
      edge_size == RoundDiv(capsule.radius * 6 * ONE, Sqrt27 + Sqrt15)
      a == edge_size
      b == MulFx(m, edge_size)
      r2 == RoundDiv(capsule.radius * 2 * ONE, Sqrt3)
      c == Half(r2)
      d == capsule.radius
  IN  <<TfPoint(t, 0, a, b + hl), TfPoint(t, 0, -a, b + hl), TfPoint(t, 0, a, -b + hl),
        TfPoint(t, 0, -a, -b + hl), TfPoint(t, a, b, hl), TfPoint(t, -a, b, hl),
        TfPoint(t, a, -b, hl), TfPoint(t, -a, -b, hl), TfPoint(t, b, 0, a + hl),
        TfPoint(t, b, 0, -a + hl), TfPoint(t, -b, 0, a + hl), TfPoint(t, -b, 0, -a + hl),
        TfPoint(t, 0, a, b - hl), TfPoint(t, 0, -a, b - hl), TfPoint(t, 0, a, -b - hl),
        TfPoint(t, 0, -a, -b - hl), TfPoint(t, a, b, -hl), TfPoint(t, -a, b, -hl),
        TfPoint(t, a, -b, -hl), TfPoint(t, -a, -b, -hl), TfPoint(t, b, 0, a - hl),
        TfPoint(t, b, 0, -a - hl), TfPoint(t, -b, 0, a - hl), TfPoint(t, -b, 0, -a - hl),
        TfPoint(t, r2, 0, hl), TfPoint(t, c, d, hl), TfPoint(t, -c, d, hl),
        TfPoint(t, -r2, 0, hl), TfPoint(t, -c, -d, hl), TfPoint(t, c, -d, hl),
        TfPoint(t, r2, 0, -hl), TfPoint(t, c, d, -hl), TfPoint(t, -c, d, -hl),
        TfPoint(t, -r2, 0, -hl), TfPoint(t, -c, -d, -hl), TfPoint(t, c, -d, -hl)>>

getBoundVertices_Cone(cone, t) ==
  LET hl == Half(cone.lz)
      r2 == RoundDiv(cone.radius * 2 * ONE, Sqrt3)
      a == Half(r2)
      b == cone.radius
  IN  <<TfPoint(t, r2, 0, -hl), TfPoint(t, a, b, -hl), TfPoint(t, -a, b, -hl),
        TfPoint(t, -r2, 0, -hl), TfPoint(t, -a, -b, -hl), TfPoint(t, a, -b, -hl),
        TfPoint(t, 0, 0, hl)>>

getBoundVertices_Cylinder(cylinder, t) ==
  LET hl == Half(cylinder.lz)
      r2 == RoundDiv(cylinder.radius * 2 * ONE, Sqrt3)
      a == Half(r2)
      b == cylinder.radius
  IN  <<TfPoint(t, r2, 0, -hl), TfPoint(t, a, b, -hl), TfPoint(t, -a, b, -hl),
        TfPoint(t, -r2, 0, -hl), TfPoint(t, -a, -b, -hl), TfPoint(t, a, -b, -hl),
        TfPoint(t, r2, 0, hl), TfPoint(t, a, b, hl), TfPoint(t, -a, b, hl),
        TfPoint(t, -r2, 0, hl), TfPoint(t, -a, -b, hl), TfPoint(t, a, -b, hl)>>

\* num_points is Len(points)
getBoundVertices_Convex(convex, t) ==
  [i \in 1..Len(convex.points) |-> Apply(t, convex.points[i])]

getBoundVertices_TriangleP(triangle, t) ==
  <<Apply(t, triangle.points[1]), Apply(t, triangle.points[2]),
    Apply(t, triangle.points[3])>>

\* the overload the shape's type selects
getBoundVertices(s, t) ==
  CASE s.kind = "Box" -> getBoundVertices_Box(s, t)
    [] s.kind = "Sphere" -> getBoundVertices_Sphere(s, t)
    [] s.kind = "Ellipsoid" -> getBoundVertices_Ellipsoid(s, t)
    [] s.kind = "Capsule" -> getBoundVertices_Capsule(s, t)
    [] s.kind = "Cone" -> getBoundVertices_Cone(s, t)
    [] s.kind = "Cylinder" -> getBoundVertices_Cylinder(s, t)
    [] s.kind = "Convex" -> getBoundVertices_Convex(s, t)
    [] s.kind = "TriangleP" -> getBoundVertices_TriangleP(s, t)

(***************************************************************************)
(* class AABB (fcl/BV/AABB.h): the empty box, the box of a point, +=,      *)
(* the box of three points, center()                                       *)
(***************************************************************************)
Min2(a, b) == IF a <= b THEN a ELSE b
Max2(a, b) == IF a >= b THEN a ELSE b
AABB_empty == AABB(VConstant(FMax), VConstant(-FMax))
\* bv += p
AABB_addPoint(b, p) ==
  AABB(<<Min2(b.min_[1], p[1]), Min2(b.min_[2], p[2]), Min2(b.min_[3], p[3])>>,
       <<Max2(b.max_[1], p[1]), Max2(b.max_[2], p[2]), Max2(b.max_[3], p[3])>>)
\* AABB(a, b, c)
AABB_of3(a, b, c) ==
  AABB(<<Min2(Min2(a[1], b[1]), c[1]), Min2(Min2(a[2], b[2]), c[2]),
         Min2(Min2(a[3], b[3]), c[3])>>,
       <<Max2(Max2(a[1], b[1]), c[1]), Max2(Max2(a[2], b[2]), c[2]),
         Max2(Max2(a[3], b[3]), c[3])>>)
\* bv.center() is (min_ + max_) * 0.5
AABB_center(b) ==
  <<Half(FAdd(b.min_[1], b.max_[1])), Half(FAdd(b.min_[2], b.max_[2])),
    Half(FAdd(b.min_[3], b.max_[3]))>>

(***************************************************************************)
(* computeBV<AABB, bounded shape>                                          *)
(***************************************************************************)
\* max_ = T + v_delta, min_ = T - v_delta
\* the two corners exchanged
AABB_around_swapped(T, v_delta) == AABB(VAdd(T, v_delta), VSub(T, v_delta))
AABB_around(T, v_delta) == AABB(VSub(T, v_delta), VAdd(T, v_delta))

\* fabs(R(i, 0) * e0) + fabs(R(i, 1) * e1) + fabs(R(i, 2) * e2)
AbsRow(R, i, e0, e1, e2) ==
  Abs(MulFx(R[i][1], e0)) + Abs(MulFx(R[i][2], e1)) + Abs(MulFx(R[i][3], e2))

\* computeBV<AABB, Box> that reads R(j, i) for R(i, j)
computeBV_AABB_Box_transposed(s, t) ==
  LET Rt == <<Col(t.R, 1), Col(t.R, 2), Col(t.R, 3)>>
      x_range == Half(AbsRow(Rt, 1, s.side[1], s.side[2], s.side[3]))
      y_range == Half(AbsRow(Rt, 2, s.side[1], s.side[2], s.side[3]))
      z_range == Half(AbsRow(Rt, 3, s.side[1], s.side[2], s.side[3]))
  IN  AABB_around(t.T, Vec(x_range, y_range, z_range))

\* computeBV<AABB, Box> that ignores the rotation
computeBV_AABB_Box_norot(s, t) ==
  AABB_around(t.T, Vec(Half(s.side[1]), Half(s.side[2]), Half(s.side[3])))

computeBV_AABB_Box(s, t) ==
  LET x_range == Half(AbsRow(t.R, 1, s.side[1], s.side[2], s.side[3]))
      y_range == Half(AbsRow(t.R, 2, s.side[1], s.side[2], s.side[3]))
      z_range == Half(AbsRow(t.R, 3, s.side[1], s.side[2], s.side[3]))
  IN  AABB_around(t.T, Vec(x_range, y_range, z_range))

\* computeBV<AABB, Sphere> that leaves the sphere at the origin
computeBV_AABB_Sphere_origin(s, t) == AABB_around(VZero, VConstant(s.radius))
computeBV_AABB_Sphere(s, t) == AABB_around(t.T, VConstant(s.radius))

computeBV_AABB_Ellipsoid(s, t) ==
  LET x_range == AbsRow(t.R, 1, s.radii[1], s.radii[2], s.radii[3])
      y_range == AbsRow(t.R, 2, s.radii[1], s.radii[2], s.radii[3])
      z_range == AbsRow(t.R, 3, s.radii[1], s.radii[2], s.radii[3])
  IN  AABB_around(t.T, Vec(x_range, y_range, z_range))

computeBV_AABB_Capsule(s, t) ==
  LET x_range == Half(Abs(MulFx(t.R[1][3], s.lz))) + s.radius
      y_range == Half(Abs(MulFx(t.R[2][3], s.lz))) + s.radius
      z_range == Half(Abs(MulFx(t.R[3][3], s.lz))) + s.radius
  IN  AABB_around(t.T, Vec(x_range, y_range, z_range))

\* fabs(R(i, 0) * radius) + fabs(R(i, 1) * radius) + 0.5 * fabs(R(i, 2) * lz)
ConeRow(R, i, radius, lz) ==
  Abs(MulFx(R[i][1], radius)) + Abs(MulFx(R[i][2], radius)) + Half(Abs(MulFx(R[i][3], lz)))

computeBV_AABB_Cone(s, t) ==
  AABB_around(t.T, Vec(ConeRow(t.R, 1, s.radius, s.lz), ConeRow(t.R, 2, s.radius, s.lz),
                       ConeRow(t.R, 3, s.radius, s.lz)))

computeBV_AABB_Cylinder(s, t) ==
  AABB_around(t.T, Vec(ConeRow(t.R, 1, s.radius, s.lz), ConeRow(t.R, 2, s.radius, s.lz),
                       ConeRow(t.R, 3, s.radius, s.lz)))

RECURSIVE ConvexLoop(_, _, _, _)
\* the loop over the points, from point i on, bv_ the box so far
ConvexLoop(points, t, i, bv_) ==
  IF i > Len(points) THEN bv_
  ELSE ConvexLoop(points, t, i + 1, AABB_addPoint(bv_, VAdd(MatVec(t.R, points[i]), t.T)))

computeBV_AABB_Convex(s, t) == ConvexLoop(s.points, t, 1, AABB_empty)

computeBV_AABB_TriangleP(s, t) ==
  AABB_of3(Apply(t, s.points[1]), Apply(t, s.points[2]), Apply(t, s.points[3]))

\* the specialisation the shape's type selects
computeBV_AABB(s, t) ==
  CASE s.kind = "Box" -> computeBV_AABB_Box(s, t)
    [] s.kind = "Sphere" -> computeBV_AABB_Sphere(s, t)
    [] s.kind = "Ellipsoid" -> computeBV_AABB_Ellipsoid(s, t)
    [] s.kind = "Capsule" -> computeBV_AABB_Capsule(s, t)
    [] s.kind = "Cone" -> computeBV_AABB_Cone(s, t)
    [] s.kind = "Cylinder" -> computeBV_AABB_Cylinder(s, t)
    [] s.kind = "Convex" -> computeBV_AABB_Convex(s, t)
    [] s.kind = "TriangleP" -> computeBV_AABB_TriangleP(s, t)
    [] s.kind = "Halfspace" -> computeBV_AABB_Halfspace(s, t)
    [] s.kind = "Plane" -> computeBV_AABB_Plane(s, t)

(***************************************************************************)
(* computeBV<OBB, bounded shape>                                           *)
(***************************************************************************)
computeBV_OBB_Box(s, t) ==
  OBB(t.R, t.T, Vec(Half(s.side[1]), Half(s.side[2]), Half(s.side[3])))

computeBV_OBB_Sphere(s, t) == OBB(Identity, t.T, VConstant(s.radius))

computeBV_OBB_Ellipsoid(s, t) == OBB(t.R, t.T, s.radii)

computeBV_OBB_Capsule(s, t) ==
  OBB(t.R, t.T, Vec(s.radius, s.radius, Half(s.lz) + s.radius))

computeBV_OBB_Cone(s, t) == OBB(t.R, t.T, Vec(s.radius, s.radius, Half(s.lz)))

computeBV_OBB_Cylinder(s, t) == OBB(t.R, t.T, Vec(s.radius, s.radius, Half(s.lz)))

\* f is the OBB that fit(s.points, s.num_points, bv) left in bv
computeBV_OBB_Convex(s, t, f) == OBB(t.R, Apply(t, f.To), f.extent)

\* the specialisation the shape's type selects
computeBV_OBB(s, t, f) ==
  CASE s.kind = "Box" -> computeBV_OBB_Box(s, t)
    [] s.kind = "Sphere" -> computeBV_OBB_Sphere(s, t)
    [] s.kind = "Ellipsoid" -> computeBV_OBB_Ellipsoid(s, t)
    [] s.kind = "Capsule" -> computeBV_OBB_Capsule(s, t)
    [] s.kind = "Cone" -> computeBV_OBB_Cone(s, t)
    [] s.kind = "Cylinder" -> computeBV_OBB_Cylinder(s, t)
    [] s.kind = "Convex" -> computeBV_OBB_Convex(s, t, f)
    [] s.kind = "Halfspace" -> computeBV_OBB_Halfspace(s, t)
    [] s.kind = "Plane" -> computeBV_OBB_Plane(s, t)

(***************************************************************************)
(* The dispatch of computeBV<RSS / OBBRSS / kIOS / KDOP, S>: this file     *)
(* specialises them for Halfspace and Plane only                           *)
(***************************************************************************)
computeBV_RSS(s, t) ==
  CASE s.kind = "Halfspace" -> computeBV_RSS_Halfspace(s, t)
    [] s.kind = "Plane" -> computeBV_RSS_Plane(s, t)

computeBV_OBBRSS(s, t) ==
  CASE s.kind = "Halfspace" -> computeBV_OBBRSS_Halfspace(s, t)
    [] s.kind = "Plane" -> computeBV_OBBRSS_Plane(s, t)

computeBV_kIOS(s, t) ==
  CASE s.kind = "Halfspace" -> computeBV_kIOS_Halfspace(s, t)
    [] s.kind = "Plane" -> computeBV_kIOS_Plane(s, t)

computeBV_KDOP16(s, t) ==
  CASE s.kind = "Halfspace" -> computeBV_KDOP16_Halfspace(s, t)
    [] s.kind = "Plane" -> computeBV_KDOP16_Plane(s, t)

computeBV_KDOP18(s, t) ==
  CASE s.kind = "Halfspace" -> computeBV_KDOP18_Halfspace(s, t)
    [] s.kind = "Plane" -> computeBV_KDOP18_Plane(s, t)

computeBV_KDOP24(s, t) ==
  CASE s.kind = "Halfspace" -> computeBV_KDOP24_Halfspace(s, t)
    [] s.kind = "Plane" -> computeBV_KDOP24_Plane(s, t)

transform(s, t) ==
  CASE s.kind = "Halfspace" -> transform_Halfspace(s, t)
    [] s.kind = "Plane" -> transform_Plane(s, t)

(***************************************************************************)
(* RSS::width/height/depth (fcl/BV/RSS.h) and                              *)
(* KDOP<N>::width/height/depth/center (fcl/BV/kDOP.h)                      *)
(***************************************************************************)
RSS_width(b) == FAdd(b.l[1], 2 * b.r)
RSS_height(b) == FAdd(b.l[2], 2 * b.r)
RSS_depth(b) == FAdd(2 * b.r, 0)
KDOP_width(b) == FAdd(b.dist[b.N \div 2], -b.dist[0])
KDOP_height(b) == FAdd(b.dist[b.N \div 2 + 1], -b.dist[1])
KDOP_depth(b) == FAdd(b.dist[b.N \div 2 + 2], -b.dist[2])
KDOP_center(b) ==
  <<Half(FAdd(b.dist[0], b.dist[b.N \div 2])), Half(FAdd(b.dist[1], b.dist[b.N \div 2 + 1])),
    Half(FAdd(b.dist[2], b.dist[b.N \div 2 + 2]))>>
\* v * 2 and u - v for vectors whose components may be +-max
VTwice(v) == <<FAdd(v[1], v[1]), FAdd(v[2], v[2]), FAdd(v[3], v[3])>>
VDiff(u, v) == <<FAdd(u[1], -v[1]), FAdd(u[2], -v[2]), FAdd(u[3], -v[3])>>

(***************************************************************************)
(* constructBox(bv, box, tf): the result is [box, tf]                      *)
(***************************************************************************)
BoxAt(b, t) == [box |-> b, tf |-> t]

constructBox_AABB(b) ==
  BoxAt(Box(VDiff(b.max_, b.min_)), [R |-> Identity, T |-> AABB_center(b)])

\* constructBox(OBB) that takes the half extents for the sides
constructBox_OBB_halfside(b) == BoxAt(Box(b.extent), [R |-> b.axis, T |-> b.To])

constructBox_OBB(b) == BoxAt(Box(VTwice(b.extent)), [R |-> b.axis, T |-> b.To])

constructBox_OBBRSS(b) ==
  BoxAt(Box(VTwice(b.obb.extent)), [R |-> b.obb.axis, T |-> b.obb.To])

constructBox_kIOS(b) ==
  BoxAt(Box(VTwice(b.obb.extent)), [R |-> b.obb.axis, T |-> b.obb.To])

constructBox_RSS(b) ==
  BoxAt(Box(Vec(RSS_width(b), RSS_height(b), RSS_depth(b))), [R |-> b.axis, T |-> b.Tr])

constructBox_KDOP16(b) ==
  BoxAt(Box(Vec(KDOP_width(b), KDOP_height(b), KDOP_depth(b))),
        [R |-> Identity, T |-> KDOP_center(b)])

constructBox_KDOP18(b) ==
  BoxAt(Box(Vec(KDOP_width(b), KDOP_height(b), KDOP_depth(b))),
        [R |-> Identity, T |-> KDOP_center(b)])

constructBox_KDOP24(b) ==
  BoxAt(Box(Vec(KDOP_width(b), KDOP_height(b), KDOP_depth(b))),
        [R |-> Identity, T |-> KDOP_center(b)])

\* the overload the bounding volume's type selects
constructBox(b) ==
  CASE b.kind = "AABB" -> constructBox_AABB(b)
    [] b.kind = "OBB" -> constructBox_OBB(b)
    [] b.kind = "OBBRSS" -> constructBox_OBBRSS(b)
    [] b.kind = "kIOS" -> constructBox_kIOS(b)
    [] b.kind = "RSS" -> constructBox_RSS(b)
    [] b.kind = "KDOP" /\ b.N = 16 -> constructBox_KDOP16(b)
    [] b.kind = "KDOP" /\ b.N = 18 -> constructBox_KDOP18(b)
    [] b.kind = "KDOP" /\ b.N = 24 -> constructBox_KDOP24(b)

(***************************************************************************)
(* constructBox(bv, tf_bv, box, tf)                                        *)
(***************************************************************************)
\* the two-argument constructBox(AABB) that drops the parent transform
constructBoxTf_AABB_noparent(b, p) ==
  BoxAt(Box(VDiff(b.max_, b.min_)), [R |-> Identity, T |-> AABB_center(b)])

constructBoxTf_AABB(b, p) ==
  BoxAt(Box(VDiff(b.max_, b.min_)), Compose(p, Translation3d(AABB_center(b))))

constructBoxTf_OBB(b, p) == BoxAt(Box(VTwice(b.extent)), [R |-> b.axis, T |-> b.To])

constructBoxTf_OBBRSS(b, p) ==
  BoxAt(Box(VTwice(b.obb.extent)), Compose(p, [R |-> b.obb.axis, T |-> b.obb.To]))

constructBoxTf_kIOS(b, p) ==
  BoxAt(Box(VTwice(b.obb.extent)), Compose(p, [R |-> b.obb.axis, T |-> b.obb.To]))

constructBoxTf_RSS(b, p) ==
  BoxAt(Box(Vec(RSS_width(b), RSS_height(b), RSS_depth(b))),
        Compose(p, [R |-> b.axis, T |-> b.Tr]))

constructBoxTf_KDOP16(b, p) ==
  BoxAt(Box(Vec(KDOP_width(b), KDOP_height(b), KDOP_depth(b))),
        Compose(p, Translation3d(KDOP_center(b))))

constructBoxTf_KDOP18(b, p) ==
  BoxAt(Box(Vec(KDOP_width(b), KDOP_height(b), KDOP_depth(b))),
        Compose(p, Translation3d(KDOP_center(b))))

constructBoxTf_KDOP24(b, p) ==
  BoxAt(Box(Vec(KDOP_width(b), KDOP_height(b), KDOP_depth(b))),
        Compose(p, Translation3d(KDOP_center(b))))

\* the overload the bounding volume's type selects
constructBoxTf(b, p) ==
  CASE b.kind = "AABB" -> constructBoxTf_AABB(b, p)
    [] b.kind = "OBB" -> constructBoxTf_OBB(b, p)
    [] b.kind = "OBBRSS" -> constructBoxTf_OBBRSS(b, p)
    [] b.kind = "kIOS" -> constructBoxTf_kIOS(b, p)
    [] b.kind = "RSS" -> constructBoxTf_RSS(b, p)
    [] b.kind = "KDOP" /\ b.N = 16 -> constructBoxTf_KDOP16(b, p)
    [] b.kind = "KDOP" /\ b.N = 18 -> constructBoxTf_KDOP18(b, p)
    [] b.kind = "KDOP" /\ b.N = 24 -> constructBoxTf_KDOP24(b, p)

(***************************************************************************)
(* The inputs                                                              *)
(***************************************************************************)
SizeVecs == {Vec(x, y, z) : x \in Sizes, y \in Sizes, z \in Sizes}
\* Box::side holds full side lengths: twice the half extents
Boxes == {Box(VScale(2, h)) : h \in SizeVecs}
Spheres == {Sphere(r) : r \in Sizes}
Ellipsoids == {Ellipsoid(r) : r \in SizeVecs}
Capsules == {Capsule(r, 2 * h) : r \in Sizes, h \in Sizes}
Cones == {Cone(r, 2 * h) : r \in Sizes, h \in Sizes}
Cylinders == {Cylinder(r, 2 * h) : r \in Sizes, h \in Sizes}
P0 == Vec(0, 0, 0)
P1 == Vec(UNIT, 0, 0)
P2 == Vec(0, 2 * UNIT, 0)
P3 == Vec(-UNIT, UNIT, 3 * UNIT)
P4 == Vec(2 * UNIT, -UNIT, -UNIT)
Convexes == {Convex(<<P3>>), Convex(<<P0, P1, P2, P3>>), Convex(<<P4, P3, P1, P2, P0>>)}
Triangles == {TriangleP(P0, P1, P2), TriangleP(P3, P4, P1)}
BoundedShapes ==
  Boxes \cup Spheres \cup Ellipsoids \cup Capsules \cup Cones \cup Cylinders
    \cup Convexes \cup Triangles
ImplicitShapes == Halfspaces \cup Planes
IsBounded(s) == s.kind \notin {"Halfspace", "Plane"}

\* what fit() may leave in bv: fit is an external primitive, its result is
\* any OBB
NoFit == OBB(Identity, VZero, VZero)
FitResults(s) ==
  IF s.kind = "Convex"
  THEN {OBB(a, c, e) : a \in {Identity, RotZ90, RotX90}, c \in {P0, P4},
                       e \in {Vec(UNIT, 2 * UNIT, 3 * UNIT)}}
  ELSE {NoFit}

\* the parent transforms handed to the two-argument constructBox
ParentTransforms ==
  {IdentityTf, [R |-> RotZ90, T |-> Vec(UNIT, 0, -UNIT)], [R |-> RotX90, T |-> Vec(0, 2 * UNIT, UNIT)]}

(***************************************************************************)
(* The state machine: the arguments, then a call, then constructBox        *)
(***************************************************************************)
NoBox == BoxAt(Box(VZero), IdentityTf)
NoShape == Halfspace(VZero, 0)

InitWith(shapes) ==
  /\ shape \in shapes
  /\ tf \in Transforms
  /\ op = "none"
  /\ bv = NoBV
  /\ verts = <<>>
  /\ new_s = NoShape
  /\ fitted = NoFit
  /\ tf_bv = IdentityTf
  /\ box = NoBox.box
  /\ tfOut = NoBox.tf

Call_getBoundVertices ==
  /\ op = "none"
  /\ IsBounded(shape)
  /\ verts' = getBoundVertices(shape, tf)
  /\ op' = "getBoundVertices"
  /\ UNCHANGED <<shape, tf, bv, new_s, fitted, tf_bv, box, tfOut>>

Call_transform ==
  /\ op = "none"
  /\ ~IsBounded(shape)
  /\ new_s' = transform(shape, tf)
  /\ op' = "transform"
  /\ UNCHANGED <<shape, tf, bv, verts, fitted, tf_bv, box, tfOut>>

\* a caller may sample the vertices and then ask for the AABB
Call_computeBV_AABB ==
  /\ op \in {"none", "getBoundVertices"}
  /\ bv' = computeBV_AABB(shape, tf)
  /\ op' = "computeBV"
  /\ UNCHANGED <<shape, tf, verts, new_s, fitted, tf_bv, box, tfOut>>

Call_computeBV_OBB ==
  /\ op = "none"
  /\ shape.kind # "TriangleP"
  /\ \E f \in FitResults(shape) :
       /\ fitted' = f
       /\ bv' = computeBV_OBB(shape, tf, f)
  /\ op' = "computeBV"
  /\ UNCHANGED <<shape, tf, verts, new_s, tf_bv, box, tfOut>>

Call_computeBV_RSS ==
  /\ op = "none"
  /\ ~IsBounded(shape)
  /\ bv' = computeBV_RSS(shape, tf)
  /\ op' = "computeBV"
  /\ UNCHANGED <<shape, tf, verts, new_s, fitted, tf_bv, box, tfOut>>

Call_computeBV_OBBRSS ==
  /\ op = "none"
  /\ ~IsBounded(shape)
  /\ bv' = computeBV_OBBRSS(shape, tf)
  /\ op' = "computeBV"
  /\ UNCHANGED <<shape, tf, verts, new_s, fitted, tf_bv, box, tfOut>>

Call_computeBV_kIOS ==
  /\ op = "none"
  /\ ~IsBounded(shape)
  /\ bv' = computeBV_kIOS(shape, tf)
  /\ op' = "computeBV"
  /\ UNCHANGED <<shape, tf, verts, new_s, fitted, tf_bv, box, tfOut>>

Call_computeBV_KDOP16 ==
  /\ op = "none"
  /\ ~IsBounded(shape)
  /\ bv' = computeBV_KDOP16(shape, tf)
  /\ op' = "computeBV"
  /\ UNCHANGED <<shape, tf, verts, new_s, fitted, tf_bv, box, tfOut>>

Call_computeBV_KDOP18 ==
  /\ op = "none"
  /\ ~IsBounded(shape)
  /\ bv' = computeBV_KDOP18(shape, tf)
  /\ op' = "computeBV"
  /\ UNCHANGED <<shape, tf, verts, new_s, fitted, tf_bv, box, tfOut>>

Call_computeBV_KDOP24 ==
  /\ op = "none"
  /\ ~IsBounded(shape)
  /\ bv' = computeBV_KDOP24(shape, tf)
  /\ op' = "computeBV"
  /\ UNCHANGED <<shape, tf, verts, new_s, fitted, tf_bv, box, tfOut>>

Call_constructBox ==
  /\ op = "computeBV"
  /\ box' = constructBox(bv).box
  /\ tfOut' = constructBox(bv).tf
  /\ op' = "constructBox"
  /\ UNCHANGED <<shape, tf, bv, verts, new_s, fitted, tf_bv>>

Call_constructBoxTf ==
  /\ op = "computeBV"
  /\ \E p \in ParentTransforms :
       /\ tf_bv' = p
       /\ box' = constructBoxTf(bv, p).box
       /\ tfOut' = constructBoxTf(bv, p).tf
  /\ op' = "constructBoxTf"
  /\ UNCHANGED <<shape, tf, bv, verts, new_s, fitted>>

\* half-spaces and planes: the implicit-surface transform and the bounds
InitImplicit == InitWith(ImplicitShapes)
NextImplicit ==
  \/ Call_transform
  \/ Call_computeBV_AABB
  \/ Call_computeBV_OBB
  \/ Call_computeBV_KDOP16
  \/ Call_computeBV_KDOP18
  \/ Call_computeBV_KDOP24
SpecImplicit == InitImplicit /\ [][NextImplicit]_vars

\* the bounded shapes: the vertex sampler and the AABB and OBB
InitBounded == InitWith(BoundedShapes)
NextBounded ==
  \/ Call_getBoundVertices
  \/ Call_computeBV_AABB
  \/ Call_computeBV_OBB
SpecBounded == InitBounded /\ [][NextBounded]_vars

\* the box reconstruction of the bounds of boxes, half-spaces and planes
BoxSpecShapes ==
  Boxes \cup {s \in ImplicitShapes :
                 s.n \in {Vec(ONE, 0, 0), Vec(0, -ONE, 0), Vec(InvSqrt2, InvSqrt2, 0)}}
InitBox == InitWith(BoxSpecShapes)
NextBox ==
  \/ Call_computeBV_AABB
  \/ Call_computeBV_OBB
  \/ Call_computeBV_RSS
  \/ Call_computeBV_OBBRSS
  \/ Call_computeBV_kIOS
  \/ Call_computeBV_KDOP16
  \/ Call_computeBV_KDOP18
  \/ Call_computeBV_KDOP24
  \/ Call_constructBox
  \/ Call_constructBoxTf
SpecBox == InitBox /\ [][NextBox]_vars

\* the AABB of every shape of the catalogue
InitAABB == InitWith(BoundedShapes \cup ImplicitShapes)
NextAABB ==
  \/ Call_getBoundVertices
  \/ Call_computeBV_AABB
SpecAABB == InitAABB /\ [][NextAABB]_vars

\* planes: the transform and the oriented bounds
InitPlane == InitWith(Planes)
NextPlane ==
  \/ Call_transform
  \/ Call_computeBV_OBB
  \/ Call_computeBV_RSS
SpecPlane == InitPlane /\ [][NextPlane]_vars

(***************************************************************************)
(* Properties                                                              *)
(***************************************************************************)
IsImplicitCall(k) == op = "computeBV" /\ bv.kind = k /\ ~IsBounded(shape)
\* n has a nonzero component along axis i and exact zeros along the others
AlignedWithAxis(n, i) == n[i] # 0 /\ \A j \in Axes \ {i} : n[j] = 0
Unbounded(b, i) == b.min_[i] = -FMax /\ b.max_[i] = FMax

\* C1: computeBV<AABB, Halfspace / Plane>: with (n', d') = transform(shape, tf),
\* if n' lies along exactly one world axis i then a Halfspace with n'_i > 0 has
\* only max_i tightened, to d', with n'_i < 0 only min_i, to -d', a Plane has
\* min_i and max_i both set to that value, and every other bound is -max / +max;
\* if n' lies along no axis all six bounds are unbounded.  In particular normal
\* (1, 0, 0), offset d and the identity transform give max.x = d.
C1_AABBOfImplicit ==
  IsImplicitCall("AABB") =>
    LET n == transform(shape, tf).n
        d == transform(shape, tf).d
    IN  /\ \A i \in Axes :
             AlignedWithAxis(n, i) =>
               /\ \A j \in Axes \ {i} : Unbounded(bv, j)
               /\ shape.kind = "Halfspace" /\ n[i] > 0 =>
                    bv.max_[i] = d /\ bv.min_[i] = -FMax
               /\ shape.kind = "Halfspace" /\ n[i] < 0 =>
                    bv.min_[i] = -d /\ bv.max_[i] = FMax
               /\ shape.kind = "Plane" /\ n[i] > 0 => bv.min_[i] = d /\ bv.max_[i] = d
               /\ shape.kind = "Plane" /\ n[i] < 0 => bv.min_[i] = -d /\ bv.max_[i] = -d
        /\ (\A i \in Axes : ~AlignedWithAxis(n, i)) => \A j \in Axes : Unbounded(bv, j)
        /\ shape.kind = "Halfspace" /\ shape.n = Vec(ONE, 0, 0) /\ tf = IdentityTf =>
             /\ bv.max_[1] = shape.d
             /\ bv.min_[1] = -FMax
             /\ Unbounded(bv, 2) /\ Unbounded(bv, 3)

\* a half-space whose normal the rotation turns onto a negative world axis,
\* with an offset the translation changes, has had its AABB computed
C1_Witness ==
  /\ IsImplicitCall("AABB")
  /\ shape.kind = "Halfspace"
  /\ tf.R # Identity
  /\ transform(shape, tf).n = Vec(0, -ONE, 0)
  /\ shape.n # Vec(0, -ONE, 0)
  /\ transform(shape, tf).d # shape.d
  /\ transform(shape, tf).d # 0

(***************************************************************************)
(* KDOP<N>'s fixed directions (fcl/BV/kDOP.h): slot N/2 + i bounds the     *)
(* projection on direction i from above, slot i on its opposite            *)
(***************************************************************************)
KDOPDirection(i) ==
  CASE i = 0 -> Vec(1, 0, 0)
    [] i = 1 -> Vec(0, 1, 0)
    [] i = 2 -> Vec(0, 0, 1)
    [] i = 3 -> Vec(1, 1, 0)
    [] i = 4 -> Vec(1, 0, 1)
    [] i = 5 -> Vec(0, 1, 1)
    [] i = 6 -> Vec(1, -1, 0)
    [] i = 7 -> Vec(1, 0, -1)
    [] i = 8 -> Vec(0, 1, -1)
    [] i = 9 -> Vec(1, 1, -1)
    [] i = 10 -> Vec(1, -1, 1)
    [] i = 11 -> Vec(-1, 1, 1)
\* n is a nonzero multiple, positive or negative, of v
Parallel(n, v) ==
  /\ n # VZero
  /\ n[1] * v[2] = n[2] * v[1]
  /\ n[1] * v[3] = n[3] * v[1]
  /\ n[2] * v[3] = n[3] * v[2]
\* the slots of a KDOP that differ from their unbounded initial value
Tightened(b) == {i \in 0..(b.N - 1) : b.dist[i] # KDOPInit(b.N \div 2)[i]}
IsKDOPHalfspaceCall == op = "computeBV" /\ bv.kind = "KDOP" /\ shape.kind = "Halfspace"
\* the statement of C2 for the KDOPs whose N is in Ns
KDOPHalfspaceOneSlot(Ns) ==
  IsKDOPHalfspaceCall /\ bv.N \in Ns =>
    LET n == transform(shape, tf).n
        D == bv.N \div 2
    IN  /\ Cardinality(Tightened(bv)) <= 1
        /\ (\E i \in 0..(D - 1) : Parallel(n, KDOPDirection(i))) =>
             Cardinality(Tightened(bv)) = 1
        /\ (\A i \in 0..(D - 1) : ~Parallel(n, KDOPDirection(i))) => Tightened(bv) = {}
        /\ shape.n = Vec(ONE, 0, 0) /\ tf = IdentityTf =>
             Tightened(bv) = {D} /\ bv.dist[D] = shape.d

\* C2: computeBV<KDOP<k>, Halfspace>, k in {16, 18, 24}: at most one of the
\* k slots differs from its unbounded initial value; exactly one does when the
\* transformed normal is aligned with one of the fixed directions, and none
\* when it is aligned with none; normal (1, 0, 0), offset d, identity transform
\* tightens exactly slot k/2, to d.
C2_KDOPOneSlot == KDOPHalfspaceOneSlot({16, 18, 24})

\* C3 as stated: the OBB of every Halfspace and Plane has column 0 of its axes
\* equal to R * n, extent 0 along it and unbounded extents along the other two.
C3_Original ==
  IsImplicitCall("OBB") =>
    /\ Col(bv.axis, 1) = MatVec(tf.R, shape.n)
    /\ bv.extent = Vec(0, FMax, FMax)

\* C3 (amended): the OBB of a Plane has column 0 of its axes equal to R * n,
\* extent 0 along it and unbounded extents along the other two; the OBB of a
\* Halfspace is the whole space whatever the transform: identity axes, center
\* 0 and all three extents unbounded.
C3_OBBOfImplicit ==
  IsImplicitCall("OBB") =>
    /\ shape.kind = "Plane" =>
         /\ Col(bv.axis, 1) = MatVec(tf.R, shape.n)
         /\ bv.extent = Vec(0, FMax, FMax)
    /\ shape.kind = "Halfspace" =>
         /\ bv.axis = Identity
         /\ bv.To = VZero
         /\ bv.extent = Vec(FMax, FMax, FMax)

\* the OBB of a plane whose normal the rotation moves has been computed
C3_Witness ==
  /\ IsImplicitCall("OBB")
  /\ shape.kind = "Plane"
  /\ MatVec(tf.R, shape.n) # shape.n
  /\ tf.T # VZero
  /\ shape.d # 0

\* the points the plane equation is evaluated at
TestPoints == {Vec(x, y, z) : x \in {-UNIT, 0, UNIT}, y \in {-UNIT, 0, UNIT},
                               z \in {-UNIT, 0, UNIT}}

\* C7: transform(Halfspace / Plane, tf) returns n' = R * n and d' = d + n'.T,
\* and the plane equation stays valid: for every point x, n.x <= d iff
\* n'.(R x + T) <= d', and n.x = d iff n'.(R x + T) = d'.
C7_TransformKeepsEquation ==
  op = "transform" =>
    /\ new_s.kind = shape.kind
    /\ new_s.n = MatVec(tf.R, shape.n)
    /\ new_s.d = shape.d + Dot(new_s.n, tf.T)
    /\ \A x \in TestPoints :
         /\ Dot(shape.n, x) <= shape.d <=> Dot(new_s.n, Apply(tf, x)) <= new_s.d
         /\ Dot(shape.n, x) = shape.d <=> Dot(new_s.n, Apply(tf, x)) = new_s.d

\* a half-space has been transformed by a rotation that moves its normal and a
\* translation that changes its offset, and some test point lies on its boundary
C7_Witness ==
  /\ op = "transform"
  /\ shape.kind = "Halfspace"
  /\ new_s.n # shape.n
  /\ new_s.d # shape.d
  /\ \E x \in TestPoints : x # VZero /\ Dot(shape.n, x) = shape.d
  /\ \E x \in TestPoints : Dot(shape.n, x) > shape.d

\* C4: computeBV<OBB, Convex>: the OBB is the one fit() fitted to the local
\* points, re-oriented by the transform: the fitted extents, tf applied to the
\* fitted center, and tf's rotation composed with the fitted axes; under the
\* identity transform it is the fitted OBB itself, whatever axes fit() returned.
C4_OBBOfConvex ==
  op = "computeBV" /\ bv.kind = "OBB" /\ shape.kind = "Convex" =>
    /\ bv.extent = fitted.extent
    /\ bv.To = Apply(tf, fitted.To)
    /\ bv.axis = MatMul(tf.R, fitted.axis)
    /\ tf = IdentityTf => bv = fitted

\* the vertices were sampled and the AABB then computed, for the same shape
\* and transform
SampledThenAABB == op = "computeBV" /\ bv.kind = "AABB" /\ verts # <<>>
Inside(b, p) == \A i \in Axes : b.min_[i] <= p[i] /\ p[i] <= b.max_[i]
VertsInside(b, vs) == \A k \in 1..Len(vs) : Inside(b, vs[k])
CentredKinds == {"Box", "Sphere", "Ellipsoid", "Capsule", "Cone", "Cylinder"}
PolytopeKinds == {"Box", "Convex", "TriangleP"}
RoundKinds == {"Sphere", "Ellipsoid", "Capsule", "Cone", "Cylinder"}

\* C6 as stated: for every bounded shape and the identity transform the AABB
\* contains every point of getBoundVertices, and min = -max for the centred
\* shapes.
C6_Original ==
  SampledThenAABB /\ tf = IdentityTf =>
    /\ VertsInside(bv, verts)
    /\ shape.kind \in CentredKinds => bv.min_ = VNeg(bv.max_)

\* C6 (amended): under the identity transform the AABB contains every point of
\* getBoundVertices for Box, ConvexPolytope and Triangle; for Sphere, Ellipsoid,
\* Capsule, Cone and Cylinder the points are the vertices of a polytope that
\* circumscribes the shape and at least one of them lies outside the AABB;
\* min = -max for the centred shapes.
C6_AABBAndVertices ==
  SampledThenAABB /\ tf = IdentityTf =>
    /\ shape.kind \in PolytopeKinds => VertsInside(bv, verts)
    /\ shape.kind \in RoundKinds => ~VertsInside(bv, verts)
    /\ shape.kind \in CentredKinds => bv.min_ = VNeg(bv.max_)

\* a sphere was sampled and bounded under the identity: its twelve vertices
\* are those of an icosahedron, some of them outside the AABB of half width r
C6_Witness ==
  /\ SampledThenAABB
  /\ tf = IdentityTf
  /\ shape.kind = "Sphere"
  /\ Len(verts) = 12
  /\ bv.max_ = VConstant(shape.radius)
  /\ \E k \in 1..Len(verts) : ~Inside(bv, verts[k])

SetMin(S) == CHOOSE x \in S : \A y \in S : x <= y
SetMax(S) == CHOOSE x \in S : \A y \in S : x >= y
Coords(vs, i) == {vs[k][i] : k \in 1..Len(vs)}

\* C8: for every Box, ConvexPolytope and Triangle and every rigid transform the
\* AABB of computeBV equals the componentwise minimum and maximum over the
\* points of getBoundVertices for the same shape and transform.
C8_AABBIsMinMaxOfVertices ==
  SampledThenAABB /\ shape.kind \in PolytopeKinds =>
    \A i \in Axes :
      /\ bv.min_[i] = SetMin(Coords(verts, i))
      /\ bv.max_[i] = SetMax(Coords(verts, i))

\* a box with different sides, turned by a rotation that is not its own
\* inverse and moved, was sampled and bounded
C8_Witness ==
  /\ SampledThenAABB
  /\ shape.kind = "Box"
  /\ shape.side[1] # shape.side[2]
  /\ tf.R # <<Col(tf.R, 1), Col(tf.R, 2), Col(tf.R, 3)>>
  /\ tf.T # VZero

Transpose(M) == <<Col(M, 1), Col(M, 2), Col(M, 3)>>
HalfExtents(s) == Vec(Half(s.side[1]), Half(s.side[2]), Half(s.side[3]))
\* the AABB is centred on T with half widths w
CentredOn(b, T, w) == b.min_ = VSub(T, w) /\ b.max_ = VAdd(T, w)

\* C9: for a Box with half extents (hx, hy, hz), a rotation by 90 degrees about
\* a coordinate axis gives an AABB centred on the translation whose half widths
\* are the half extents permuted (about z: (hy, hx, hz), about x: (hx, hz, hy),
\* about y: (hz, hy, hx)); the OBB has extents (hx, hy, hz) for every rotation,
\* axes equal to the rotation matrix and center equal to the translation.
C9_BoxUnderRotation ==
  op = "computeBV" /\ shape.kind = "Box" =>
    LET h == HalfExtents(shape)
    IN  /\ bv.kind = "AABB" /\ tf.R \in {RotZ90, Transpose(RotZ90)} =>
             CentredOn(bv, tf.T, Vec(h[2], h[1], h[3]))
        /\ bv.kind = "AABB" /\ tf.R \in {RotX90, Transpose(RotX90)} =>
             CentredOn(bv, tf.T, Vec(h[1], h[3], h[2]))
        /\ bv.kind = "AABB" /\ tf.R \in {RotY90, Transpose(RotY90)} =>
             CentredOn(bv, tf.T, Vec(h[3], h[2], h[1]))
        /\ bv.kind = "OBB" => bv.extent = h /\ bv.axis = tf.R /\ bv.To = tf.T

\* the AABB of a box with different x and y sides, turned by 90 degrees about
\* z and moved, has been computed
C9_Witness ==
  /\ op = "computeBV"
  /\ bv.kind = "AABB"
  /\ shape.kind = "Box"
  /\ shape.side[1] # shape.side[2]
  /\ tf.R = RotZ90
  /\ tf.T # VZero

\* the bound's own placement: its axes and its center
OwnTf(b) ==
  CASE b.kind = "OBB" -> [R |-> b.axis, T |-> b.To]
    [] b.kind = "RSS" -> [R |-> b.axis, T |-> b.Tr]
    [] b.kind \in {"OBBRSS", "kIOS"} -> [R |-> b.obb.axis, T |-> b.obb.To]
\* the center of an AABB or a KDOP
CenterOf(b) == IF b.kind = "AABB" THEN AABB_center(b) ELSE KDOP_center(b)
\* t is the parent transform p followed by the placement q: p o q
IsComposed(t, p, q) ==
  /\ t.R = MatMul(p.R, q.R)
  /\ t.T = VAdd(MatVec(p.R, q.T), p.T)
\* t is p composed with the translation to c
IsParentThenTranslation(t, p, c) ==
  /\ t.R = p.R
  /\ t.T = VAdd(MatVec(p.R, c), p.T)

\* C5 as stated: the two-argument constructBox returns, for AABB and KDOP, the
\* parent transform composed with the translation to the bound's center, and
\* for OBB, RSS, OBBRSS and kIOS the bound's own axes and center, independent
\* of the parent transform, as the one-argument constructBox does.
C5_Original ==
  op = "constructBoxTf" =>
    /\ bv.kind \in {"AABB", "KDOP"} => IsParentThenTranslation(tfOut, tf_bv, CenterOf(bv))
    /\ bv.kind \in {"OBB", "RSS", "OBBRSS", "kIOS"} =>
         tfOut = OwnTf(bv) /\ tfOut = constructBox(bv).tf

\* C5 (amended): the two-argument constructBox returns, for AABB and KDOP, the
\* parent transform composed with the translation to the bound's center; for
\* RSS, OBBRSS and kIOS the parent transform composed with the bound's own axes
\* and center; only for OBB is the result independent of the parent transform
\* and equal to what the one-argument constructBox returns.
C5_ParentTransform ==
  op = "constructBoxTf" =>
    /\ bv.kind \in {"AABB", "KDOP"} => IsParentThenTranslation(tfOut, tf_bv, CenterOf(bv))
    /\ bv.kind \in {"RSS", "OBBRSS", "kIOS"} => IsComposed(tfOut, tf_bv, OwnTf(bv))
    /\ bv.kind = "OBB" => tfOut = OwnTf(bv) /\ tfOut = constructBox(bv).tf

\* the box of the RSS of a plane away from the origin was reconstructed under a
\* parent transform that rotates and translates, and the parent shows in it
C5_Witness ==
  /\ op = "constructBoxTf"
  /\ bv.kind = "RSS"
  /\ shape.kind = "Plane"
  /\ bv.Tr # VZero
  /\ tf_bv.R # Identity
  /\ tf_bv.T # VZero
  /\ tfOut # OwnTf(bv)

\* C10: the one-argument constructBox applied to computeBV<OBB, Box>(box, tf)
\* returns the box's side lengths and a transform equal to tf; applied to
\* computeBV<AABB, Box>(box, tf) for a translation-only tf it returns the box's
\* side lengths, the identity rotation and tf's translation.
C10_BoxRoundTrip ==
  op = "constructBox" /\ shape.kind = "Box" =>
    /\ bv.kind = "OBB" => box.side = shape.side /\ box = shape /\ tfOut = tf
    /\ bv.kind = "AABB" /\ tf.R = Identity =>
         /\ box.side = shape.side
         /\ tfOut.R = Identity
         /\ tfOut.T = tf.T

\* the box of the OBB of a rotated, translated box with different sides has
\* been reconstructed
C10_Witness ==
  /\ op = "constructBox"
  /\ shape.kind = "Box"
  /\ bv.kind = "OBB"
  /\ shape.side[1] # shape.side[2]
  /\ shape.side[2] # shape.side[3]
  /\ tf.R # Identity
  /\ tf.T # VZero

IsKDOPCall == op = "computeBV" /\ bv.kind = "KDOP" /\ ~IsBounded(shape)
\* the lower and the upper slot of direction pair i
PairSlots(b, i) == {i, i + b.N \div 2}
PairIds(b) == 0..(b.N \div 2 - 1)

\* C11: for every Halfspace or Plane, every rigid transform and every k in
\* {16, 18, 24}, the KDOP of computeBV has dist(i) <= dist(i + k/2) for every
\* direction pair i in 0..k/2-1, unbounded entries counting as -max / +max.
C11_KDOPMinLeMax ==
  IsKDOPCall => \A i \in PairIds(bv) : bv.dist[i] <= bv.dist[i + bv.N \div 2]

\* the KDOP of a plane has a pair with both slots set to one negative value
\* after a rotation that moved the normal
C11_Witness ==
  /\ IsKDOPCall
  /\ shape.kind = "Plane"
  /\ tf.R # Identity
  /\ \E i \in PairIds(bv) :
       /\ bv.dist[i] = bv.dist[i + bv.N \div 2]
       /\ bv.dist[i] < 0

\* C12: for every shape of the catalogue with valid parameters and every rigid
\* transform, the AABB of computeBV has min_i <= max_i on every axis i, the
\* Halfspace and Plane cases with one bound tightened to the offset included.
C12_AABBMinLeMax ==
  op = "computeBV" /\ bv.kind = "AABB" => \A i \in Axes : bv.min_[i] <= bv.max_[i]

\* the AABB of a half-space whose transformed normal lies along a negative
\* world axis: the lower bound of that axis is tightened to a positive value
C12_Witness ==
  /\ op = "computeBV"
  /\ bv.kind = "AABB"
  /\ shape.kind = "Halfspace"
  /\ \E i \in Axes : bv.min_[i] > 0 /\ bv.max_[i] = FMax

\* C13: for a Sphere of radius r and a translation-only transform with
\* translation T, computeBV<AABB, Sphere> returns min = T - (r, r, r) and
\* max = T + (r, r, r), and computeBV<OBB, Sphere> returns center T, identity
\* axes and extents (r, r, r).
C13_SphereBounds ==
  op = "computeBV" /\ shape.kind = "Sphere" /\ tf.R = Identity =>
    LET r == VConstant(shape.radius)
    IN  /\ bv.kind = "AABB" => bv.min_ = VSub(tf.T, r) /\ bv.max_ = VAdd(tf.T, r)
        /\ bv.kind = "OBB" => bv.To = tf.T /\ bv.axis = Identity /\ bv.extent = r

\* the AABB of a sphere moved off the origin along all three axes, without
\* rotation
C13_Witness ==
  /\ op = "computeBV"
  /\ bv.kind = "AABB"
  /\ shape.kind = "Sphere"
  /\ tf.R = Identity
  /\ \A i \in Axes : tf.T[i] # 0

\* the projection of the point x on fixed direction i
Project(i, x) ==
  KDOPDirection(i)[1] * x[1] + KDOPDirection(i)[2] * x[2] + KDOPDirection(i)[3] * x[3]
\* the point x lies between the two bounds of every direction pair of b
InKDOP(b, x) ==
  \A i \in PairIds(b) :
    b.dist[i] <= Project(i, x) /\ Project(i, x) <= b.dist[i + b.N \div 2]

\* C14: computeBV<KDOP<k>, Halfspace>, k in {16, 18, 24}, in the three branches
\* where the transformed normal has two equal nonzero components and an exactly
\* zero third one (direction pairs 3, 4, 5): when the equal components are
\* positive only the upper slot k/2+i is tightened, when they are negative only
\* the lower slot i, and the DOP excludes no point of the half-space (checked
\* on the test points strictly inside it, the boundary being exact only up to
\* rounding).
C14_DiagonalSide ==
  IsKDOPHalfspaceCall =>
    LET n == transform(shape, tf).n
        d == transform(shape, tf).d
        D == bv.N \div 2
    IN  \A i \in {3, 4, 5} :
          Parallel(n, KDOPDirection(i)) =>
            /\ n[1] + n[2] + n[3] > 0 => Tightened(bv) = {D + i}
            /\ n[1] + n[2] + n[3] < 0 => Tightened(bv) = {i}
            /\ \A x \in TestPoints : Dot(n, x) < d => InKDOP(bv, x)

\* the KDOP<N> computeBV returns for the half-space with the normal and the
\* offset of the plane s
KDOPOfHalfspace(N, s, t) ==
  IF N = 16 THEN computeBV_KDOP16_Halfspace(s, t)
  ELSE IF N = 18 THEN computeBV_KDOP18_Halfspace(s, t)
  ELSE computeBV_KDOP24_Halfspace(s, t)
\* the direction pairs whose alignment condition is written once in the chains
\* of all three KDOPs: the axes and the two-component diagonals
PlainPairs(b) == PairIds(b) \cap 0..8

\* C15: computeBV<KDOP<k>, Plane>, k in {16, 18, 24}: whenever the transformed
\* normal satisfies the alignment condition of direction pair i, exactly the
\* two slots of that pair, dist(i) and dist(i + k/2), are set, both to the same
\* value, and every slot of every other pair stays unbounded; and the pair is
\* the one computeBV<KDOP<k>, Halfspace> tightens for the same normal.
C15_KDOPPlanePair ==
  IsKDOPCall /\ shape.kind = "Plane" =>
    LET n == transform(shape, tf).n
        D == bv.N \div 2
        h == KDOPOfHalfspace(bv.N, shape, tf)
    IN  /\ \A i \in PlainPairs(bv) :
             Parallel(n, KDOPDirection(i)) =>
               Tightened(bv) = PairSlots(bv, i) /\ bv.dist[i] = bv.dist[i + D]
        /\ \A j \in Tightened(h) : Tightened(bv) = PairSlots(bv, j % D)

(***************************************************************************)
(* The alignment conditions of the if / else-if chain of                   *)
(* computeBV<KDOP<24>, Halfspace> and computeBV<KDOP<24>, Plane>, in the    *)
(* order of the chain; condition i guards the branch that writes pair i    *)
(***************************************************************************)
KDOP24Cond(i, n) ==
  CASE i = 0 -> n[2] = 0 /\ n[3] = 0
    [] i = 1 -> n[1] = 0 /\ n[3] = 0
    [] i = 2 -> n[1] = 0 /\ n[2] = 0
    [] i = 3 -> n[3] = 0 /\ n[1] = n[2]
    [] i = 4 -> n[2] = 0 /\ n[1] = n[3]
    [] i = 5 -> n[1] = 0 /\ n[2] = n[3]
    [] i = 6 -> n[3] = 0 /\ n[1] + n[2] = 0
    [] i = 7 -> n[2] = 0 /\ n[1] + n[3] = 0
    [] i = 8 -> n[1] = 0 /\ n[2] + n[3] = 0
    [] i = 9 -> n[1] + n[3] = 0 /\ n[1] + n[2] = 0
    [] i = 10 -> n[1] + n[2] = 0 /\ n[2] + n[3] = 0
    [] i = 11 -> n[1] + n[2] = 0 /\ n[1] + n[3] = 0
\* the branch the chain takes: the first condition that holds
KDOP24Branch(n) == {i \in 0..11 : KDOP24Cond(i, n) /\ \A j \in 0..(i - 1) : ~KDOP24Cond(j, n)}
\* the pairs with a slot that differs from its unbounded initial value
TightenedPairs(b) == {i % (b.N \div 2) : i \in Tightened(b)}
IsKDOP24Call == IsKDOPCall /\ bv.N = 24

\* the chain of the model takes the branch of the first condition that holds
KDOP24ChainFollowsConds ==
  IsKDOP24Call => TightenedPairs(bv) = KDOP24Branch(transform(shape, tf).n)

\* C16: in computeBV<KDOP<24>, Halfspace / Plane> the twelve alignment
\* conditions of the chain are pairwise mutually exclusive for every nonzero
\* normal, and each of the 12 direction pairs is tightened for the normals
\* along its direction; in particular the three-component diagonal pairs 9, 10
\* and 11 are selected by three distinct sign patterns of the normal.
C16_KDOP24Conditions ==
  IsKDOP24Call =>
    LET n == transform(shape, tf).n
    IN  /\ \A i, j \in 0..11 : i # j => ~(KDOP24Cond(i, n) /\ KDOP24Cond(j, n))
        /\ \A i \in 0..11 : Parallel(n, KDOPDirection(i)) => TightenedPairs(bv) = {i}

\* the normal has length exactly 1 on the fixed-point grid
ExactUnit(n) == n[1] * n[1] + n[2] * n[2] + n[3] * n[3] = ONE * ONE
\* the rounding error of n'.(tf * (n * d)) against d' for a normal whose
\* components are rounded to the grid
RoundingSlack(d) == Abs(d) \div 200 + 4
\* the center of an OBB or an RSS
CenterOfBound(b) == IF b.kind = "OBB" THEN b.To ELSE b.Tr
NTimesD(s) == Vec(MulFx(s.n[1], s.d), MulFx(s.n[2], s.d), MulFx(s.n[3], s.d))

\* C17: computeBV<OBB, Plane> and computeBV<RSS, Plane>: for every Plane with
\* unit normal and every rigid transform, the computed center tf * (n * d) lies
\* on the transformed plane, n'.center = d' with (n', d') = transform(plane, tf)
\* (exactly for a normal of length exactly 1, up to rounding for a normal whose
\* components are rounded), and the first axis of the bound equals n'.
C17_PlaneCenterOnPlane ==
  op = "computeBV" /\ shape.kind = "Plane" /\ bv.kind \in {"OBB", "RSS"} =>
    LET new == transform(shape, tf)
        c == CenterOfBound(bv)
    IN  /\ c = Apply(tf, NTimesD(shape))
        /\ Col(bv.axis, 1) = new.n
        /\ ExactUnit(shape.n) => Dot(new.n, c) = new.d
        /\ Abs(Dot(new.n, c) - new.d) <= RoundingSlack(shape.d)

\* the RSS of a plane with a normal along no axis and of length exactly 1, a
\* nonzero offset, a rotation that moves the normal and a translation that
\* changes the offset
C17_Witness ==
  /\ op = "computeBV"
  /\ bv.kind = "RSS"
  /\ shape.kind = "Plane"
  /\ ExactUnit(shape.n)
  /\ \A i \in Axes : ~AlignedWithAxis(shape.n, i)
  /\ shape.d # 0
  /\ transform(shape, tf).n # shape.n
  /\ transform(shape, tf).d # shape.d

====
